---- MODULE Spec2Model ----
(***************************************************************************)
(* Instant-password attendance of backend/main.py: the in-memory store of  *)
(* instant passwords (one per server process), the class_enrollments and   *)
(* attendance tables of the shared database, and the request handlers      *)
(* generate_instant_password, invalidate_instant_password,                 *)
(* validate_instant_password, mark_instant_attendance and                  *)
(* mark_manual_attendance.                                                 *)
(*                                                                         *)
(* The handlers are `async def` functions without an await: one server     *)
(* process runs each of them to completion before it starts the next.      *)
(* Spec is that deployment (one process, as started by __main__).          *)
(* SpecConc is two server processes on the same database: the attendance   *)
(* lookup of a mark request and the write that follows it are two steps    *)
(* there, and the other process may run between them.                      *)
(*                                                                         *)
(* Time is counted in minutes; a date is a minute count divided by the     *)
(* length of a day.                                                        *)
(***************************************************************************)
EXTENDS Integers, FiniteSets, Sequences, TLC

VARIABLES
    now,                \* the wall clock, datetime.now(), in minutes
    instant_passwords,  \* per server process: the dict instant_passwords
    class_enrollments,  \* table class_enrollments
    attendance,         \* table attendance
    inflight,           \* SpecConc: per process, the request between its lookup and its write
    served,             \* the number of requests received so far
    response,           \* what the last completed request returned
    face_encodings,     \* table face_encodings
    profile_photo_url   \* column users.profile_photo_url, by user id

vars ==
    <<now, instant_passwords, class_enrollments, attendance, inflight, served, response,
      face_encodings, profile_photo_url>>

----------------------------------------------------------------------------
(* Bounds of the model *)

StartTime == 1437
MaxTicks == 4
MaxRecords == 2
MaxRequests == 3

(* Program constants *)

TTL == 3
MinutesPerDay == 1440
SUPABASE_AVAILABLE == TRUE
FACE_RECOGNITION_AVAILABLE == TRUE

\* a column no value was given for
NULL == 0 - 1

\* no image: profile_photo_url None, enrolled_image_url not set
NoImage == 0

\* the thresholds of the basic liveness check and of the matcher; distances
\* are counted in tenths (tolerance=0.6 is 6), confidences in hundredths
MinFaceSize == 100
MinContrast == 20
MinBrightness == 20
MaxBrightness == 240
Tolerance == 6

----------------------------------------------------------------------------
(* The fixed tables users and classes, and the inputs of the requests *)

users ==
    { [id |-> 1, firebase_id |-> "s1", role |-> "student"],
      [id |-> 2, firebase_id |-> "s2", role |-> "student"],
      [id |-> 3, firebase_id |-> "t1", role |-> "teacher"],
      [id |-> 4, firebase_id |-> "t2", role |-> "teacher"] }

classes == { [id |-> 1, teacher_id |-> 3] }

Procs == {"p1", "p2"}
MainProc == "p1"

RandomDraws == {100000, 999999}
Passwords == {ToString(n) : n \in RandomDraws}
PasswordInputs == Passwords \cup {""}
StudentInputs == {"s1", "s2", "t2", "zz", ""}
TeacherInputs == {"t1", "t2", "zz", ""}
ClassInputs == {1, 2}
SlotInputs == {1, 2}
StatusInputs == {"present", "absent"}

\* Where the database fails in a request: nowhere, or at one of the round
\* trips the handler makes ("attendance_empty": the write returns no row and
\* writes none).
GenerateFails == {"none", "users", "classes"}
InvalidateFails == {"none", "users"}
ValidateFails ==
    {"none", "users", "enrollment_select", "enrollment_write", "classes", "attendance_select"}
MarkInstantFails ==
    {"none", "users", "enrollment_select", "enrollment_write", "attendance_select",
     "attendance_write", "attendance_empty"}
MarkManualFails ==
    {"none", "users", "classes", "attendance_select", "attendance_write", "attendance_empty"}

----------------------------------------------------------------------------
(* Helpers *)

Date(t) == t \div MinutesPerDay

\* '%I:%M %p' of a timestamp: the time of day, without the date
TimeOfDay(t) == t % MinutesPerDay

UsersByFirebaseId(fid) == {u \in users : u.firebase_id = fid}

ClassesOfTeacher(class_id, teacher_id) ==
    {c \in classes : c.id = class_id /\ c.teacher_id = teacher_id}

EnrollmentsOf(enr, student_id, class_id) ==
    {e \in enr : e.student_id = student_id /\ e.class_id = class_id}

\* data[0] of a select: the row with the least id
First(rows) == CHOOSE r \in rows : \A q \in rows : r.id <= q.id

\* the serial id the database gives an inserted row (rows are never deleted)
NextId(rows) == Cardinality(rows) + 1

\* a Python dict as a function on its keys
Put(d, k, v) == [x \in (DOMAIN d) \cup {k} |-> IF x = k THEN v ELSE d[x]]
Del(d, k) == [x \in (DOMAIN d) \ {k} |-> d[x]]
EmptyDict == [x \in {} |-> 0]

\* what a request returns: the endpoint, the password in it (generate only),
\* the outcome, the time in it (generate: expires_at; "already marked": the
\* time of the existing record) and what it wrote to the attendance table
Resp(op, password, result, time, wrote) ==
    [op |-> op, password |-> password, result |-> result, time |-> time, wrote |-> wrote]

\* the state a handler runs in: the clock, its process's instant_passwords
\* and the two tables
State(p) ==
    [now |-> now, ip |-> instant_passwords[p], enr |-> class_enrollments, att |-> attendance]

\* a handler's outcome: its response and the stores as it leaves them
Out(res, ip, enr, att) == [res |-> res, ip |-> ip, enr |-> enr, att |-> att]

\* the state a handler's outcome leaves
After(st, out) == [now |-> st.now, ip |-> out.ip, enr |-> out.enr, att |-> out.att]

\* a write to the attendance table that a handler has decided on
NoWrite ==
    [kind |-> "none", id |-> 0, student_id |-> 0, class_id |-> 0, slot_number |-> 0,
     attendance_date |-> 0, status |-> "", marked_by |-> "", created_at |-> 0]

----------------------------------------------------------------------------
(* generate_instant_password *)

NewSession(t, class_id, slot_number, teacher_id) ==
    [class_id |-> class_id, slot_number |-> slot_number, teacher_id |-> teacher_id,
     expires_at |-> t + TTL, created_at |-> t]

generate_instant_password(st, class_id, slot_number, teacher_fid, draw, fail) ==
    LET same(res) == Out(res, st.ip, st.enr, st.att)
        teacher_result == UsersByFirebaseId(teacher_fid)
        teacher_id == First(teacher_result).id
        password == ToString(draw)
    IN  IF ~SUPABASE_AVAILABLE
        THEN same(Resp("generate", "123456", "demo", st.now + TTL, "none"))
        ELSE IF fail = "users"
        THEN same(Resp("generate", "", "http_500", 0, "none"))
        ELSE IF teacher_result = {}
        THEN same(Resp("generate", "", "teacher_not_found", 0, "none"))
        ELSE IF fail = "classes"
        THEN same(Resp("generate", "", "http_500", 0, "none"))
        ELSE IF ClassesOfTeacher(class_id, teacher_id) = {}
        THEN same(Resp("generate", "", "unauthorized", 0, "none"))
        ELSE Out(Resp("generate", password, "ok", st.now + TTL, "none"),
                 Put(st.ip, password, NewSession(st.now, class_id, slot_number, teacher_id)),
                 st.enr, st.att)

----------------------------------------------------------------------------
(* invalidate_instant_password *)

\* an invalidate that does not compare the teacher with the session's
invalidate_instant_password_AnyTeacher(st, password, teacher_fid, fail) ==
    LET same(result) == Out(Resp("invalidate", "", result, 0, "none"), st.ip, st.enr, st.att)
        teacher_result == UsersByFirebaseId(teacher_fid)
    IN  IF password = "" THEN same("password_required")
        ELSE IF teacher_fid = "" THEN same("teacher_id_required")
        ELSE IF ~SUPABASE_AVAILABLE THEN same("demo")
        ELSE IF password \in DOMAIN st.ip
        THEN IF fail = "users" THEN same("failed")
             ELSE IF teacher_result # {}
             THEN Out(Resp("invalidate", "", "ok", 0, "none"),
                      Del(st.ip, password), st.enr, st.att)
             ELSE same("teacher_not_found")
        ELSE same("ok_already_gone")

\* an invalidate that answers success and leaves the session stored
invalidate_instant_password_KeepsSession(st, password, teacher_fid, fail) ==
    LET same(result) == Out(Resp("invalidate", "", result, 0, "none"), st.ip, st.enr, st.att)
        teacher_result == UsersByFirebaseId(teacher_fid)
    IN  IF password = "" THEN same("password_required")
        ELSE IF teacher_fid = "" THEN same("teacher_id_required")
        ELSE IF ~SUPABASE_AVAILABLE THEN same("demo")
        ELSE IF password \in DOMAIN st.ip
        THEN IF fail = "users" THEN same("failed")
             ELSE IF teacher_result # {}
             THEN IF st.ip[password].teacher_id = First(teacher_result).id
                  THEN same("ok")
                  ELSE same("unauthorized")
             ELSE same("teacher_not_found")
        ELSE same("ok_already_gone")

\* an invalidate that looks the teacher up before it looks for the code
invalidate_instant_password_TeacherFirst(st, password, teacher_fid, fail) ==
    LET same(result) == Out(Resp("invalidate", "", result, 0, "none"), st.ip, st.enr, st.att)
        teacher_result == UsersByFirebaseId(teacher_fid)
    IN  IF password = "" THEN same("password_required")
        ELSE IF teacher_fid = "" THEN same("teacher_id_required")
        ELSE IF ~SUPABASE_AVAILABLE THEN same("demo")
        ELSE IF fail = "users" THEN same("failed")
        ELSE IF teacher_result = {} THEN same("teacher_not_found")
        ELSE IF password \notin DOMAIN st.ip THEN same("ok_already_gone")
        ELSE IF st.ip[password].teacher_id = First(teacher_result).id
        THEN Out(Resp("invalidate", "", "ok", 0, "none"), Del(st.ip, password), st.enr, st.att)
        ELSE same("unauthorized")

invalidate_instant_password(st, password, teacher_fid, fail) ==
    LET same(result) == Out(Resp("invalidate", "", result, 0, "none"), st.ip, st.enr, st.att)
        teacher_result == UsersByFirebaseId(teacher_fid)
    IN  IF password = "" THEN same("password_required")
        ELSE IF teacher_fid = "" THEN same("teacher_id_required")
        ELSE IF ~SUPABASE_AVAILABLE THEN same("demo")
        ELSE IF password \in DOMAIN st.ip
        THEN IF fail = "users" THEN same("failed")
             ELSE IF teacher_result # {}
             THEN IF st.ip[password].teacher_id = First(teacher_result).id
                  THEN Out(Resp("invalidate", "", "ok", 0, "none"),
                           Del(st.ip, password), st.enr, st.att)
                  ELSE same("unauthorized")
             ELSE same("teacher_not_found")
        ELSE same("ok_already_gone")

----------------------------------------------------------------------------
(* The attendance table *)

\* a lookup that mixes up its arguments: the slot is compared with the class
ExistingAttendance_SlotMixedUp(att, student_id, class_id, slot_number, date) ==
    {r \in att : /\ r.student_id = student_id
                 /\ r.class_id = class_id
                 /\ r.slot_number = class_id
                 /\ r.attendance_date = date}

ExistingAttendance(att, student_id, class_id, slot_number, date) ==
    {r \in att : /\ r.student_id = student_id
                 /\ r.class_id = class_id
                 /\ r.slot_number = slot_number
                 /\ r.attendance_date = date}

\* supabase.table("attendance").insert(...) / .update(...).eq("id", ...):
\* a write the database refuses ("attendance_write": it raises,
\* "attendance_empty": it returns no row) changes nothing
WriteSucceeds(fail) == fail \notin {"attendance_write", "attendance_empty"}

\* an update that records who marked and leaves the status as it was
ApplyWrite_KeepsStatus(att, w, fail) ==
    IF ~WriteSucceeds(fail) THEN att
    ELSE IF w.kind = "insert"
    THEN att \cup {[id |-> NextId(att), student_id |-> w.student_id, class_id |-> w.class_id,
                    slot_number |-> w.slot_number, attendance_date |-> w.attendance_date,
                    status |-> w.status, marked_by |-> w.marked_by,
                    created_at |-> w.created_at, user_id |-> NULL, date |-> NULL]}
    ELSE IF w.kind = "update"
    THEN {IF r.id = w.id THEN [r EXCEPT !.marked_by = w.marked_by] ELSE r : r \in att}
    ELSE att

ApplyWrite(att, w, fail) ==
    IF ~WriteSucceeds(fail) THEN att
    ELSE IF w.kind = "insert"
    THEN att \cup {[id |-> NextId(att), student_id |-> w.student_id, class_id |-> w.class_id,
                    slot_number |-> w.slot_number, attendance_date |-> w.attendance_date,
                    status |-> w.status, marked_by |-> w.marked_by,
                    created_at |-> w.created_at, user_id |-> NULL, date |-> NULL]}
    ELSE IF w.kind = "update"
    THEN {IF r.id = w.id THEN [r EXCEPT !.status = w.status, !.marked_by = w.marked_by] ELSE r
          : r \in att}
    ELSE att

----------------------------------------------------------------------------
(* validate_instant_password *)

\* an expiry check against the wrong timestamp of the session
IsExpired_SinceCreation(t, password_data) == t > password_data.created_at

\* 1851 and 1980: datetime.now() > password_data["expires_at"]
IsExpired(t, password_data) == t > password_data.expires_at

\* 1812-1933: the checks, with the response and the stores they leave
ValidateChecks(st, password, student_fid, fail) ==
    LET res(result, time) == Resp("validate", "", result, time, "none")
        stop(result, time, ip, enr) == [res |-> res(result, time), ip |-> ip, enr |-> enr]
        same(result) == stop(result, 0, st.ip, st.enr)
        password_data == st.ip[password]
        student_result == UsersByFirebaseId(student_fid)
        student_id == First(student_result).id
        enrollment_result == EnrollmentsOf(st.enr, student_id, password_data.class_id)
        \* 1877-1891: no enrollment: auto-enroll as approved
        enrolled ==
            IF enrollment_result = {}
            THEN st.enr \cup
                   {[id |-> NextId(st.enr), student_id |-> student_id,
                     class_id |-> password_data.class_id, status |-> "approved"]}
            ELSE st.enr
        existing_attendance ==
            ExistingAttendance(st.att, student_id, password_data.class_id,
                               password_data.slot_number, Date(st.now))
    IN  IF password = "" THEN same("password_required")
        ELSE IF student_fid = "" THEN same("student_id_required")
        ELSE IF ~SUPABASE_AVAILABLE THEN same("demo")
        ELSE IF password \notin DOMAIN st.ip THEN same("invalid_or_expired")
        ELSE IF IsExpired(st.now, password_data)
        THEN stop("expired", 0, Del(st.ip, password), st.enr)
        ELSE IF fail = "users" THEN same("student_error")
        ELSE IF student_result = {} THEN same("student_not_found")
        ELSE IF fail = "enrollment_select" THEN same("enrollment_error")
        ELSE IF enrollment_result = {} /\ fail = "enrollment_write" THEN same("not_enrolled")
        \* 1892-1902: the select at 1873 reads only "status", so the row's "id"
        \* at 1898 is a KeyError, which the except at 1900 turns into this result
        ELSE IF enrollment_result # {} /\ First(enrollment_result).status # "approved"
        THEN same("pending")
        ELSE IF fail = "classes" THEN stop("class_error", 0, st.ip, enrolled)
        ELSE IF fail = "attendance_select"
        THEN stop("attendance_check_error", 0, st.ip, enrolled)
        ELSE IF existing_attendance # {}
        THEN stop("already_marked", TimeOfDay(First(existing_attendance).created_at),
                  st.ip, enrolled)
        ELSE stop("ok", 0, st.ip, enrolled)

\* a validate that marks the student present once the checks have passed
validate_instant_password_Marks(st, password, student_fid, fail) ==
    LET c == ValidateChecks(st, password, student_fid, fail)
    IN  Out(c.res, c.ip, c.enr,
            IF c.res.result = "ok"
            THEN ApplyWrite(st.att,
                            [NoWrite EXCEPT !.kind = "insert",
                                            !.student_id = First(UsersByFirebaseId(student_fid)).id,
                                            !.class_id = st.ip[password].class_id,
                                            !.slot_number = st.ip[password].slot_number,
                                            !.attendance_date = Date(st.now),
                                            !.status = "present",
                                            !.marked_by = "instant_password",
                                            !.created_at = st.now],
                            "none")
            ELSE st.att)

validate_instant_password(st, password, student_fid, fail) ==
    LET c == ValidateChecks(st, password, student_fid, fail)
    IN  Out(c.res, c.ip, c.enr, st.att)

----------------------------------------------------------------------------
(* mark_instant_attendance *)

\* 1945-2052: everything up to the lookup of an existing record. done: the
\* request ends here with res; otherwise write is the insert it goes on to.
MarkInstantLookup(st, password, student_fid, fail) ==
    LET res(result, time) == Resp("mark_instant", "", result, time, "none")
        stop(result, time, ip, enr) ==
            [done |-> TRUE, res |-> res(result, time), ip |-> ip, enr |-> enr, write |-> NoWrite]
        same(result) == stop(result, 0, st.ip, st.enr)
        password_data == st.ip[password]
        student_result == UsersByFirebaseId(student_fid)
        student_data == First(student_result)
        student_id == student_data.id
        enrollment_result == EnrollmentsOf(st.enr, student_id, password_data.class_id)
        \* 2010-2037: auto-enroll, or auto-approve the enrollment found
        enrolled ==
            IF enrollment_result = {}
            THEN st.enr \cup
                   {[id |-> NextId(st.enr), student_id |-> student_id,
                     class_id |-> password_data.class_id, status |-> "approved"]}
            ELSE IF First(enrollment_result).status # "approved"
            THEN {IF e.id = First(enrollment_result).id THEN [e EXCEPT !.status = "approved"] ELSE e
                  : e \in st.enr}
            ELSE st.enr
        existing_attendance ==
            ExistingAttendance(st.att, student_id, password_data.class_id,
                               password_data.slot_number, Date(st.now))
    IN  IF password = "" THEN same("password_required")
        ELSE IF student_fid = "" THEN same("student_id_required")
        ELSE IF ~SUPABASE_AVAILABLE THEN same("demo")
        ELSE IF password \notin DOMAIN st.ip THEN same("invalid_or_expired")
        ELSE IF IsExpired(st.now, password_data)
        THEN stop("expired", 0, Del(st.ip, password), st.enr)
        ELSE IF fail = "users" THEN same("student_error")
        ELSE IF student_result = {} THEN same("student_not_found")
        ELSE IF student_data.role # "student" THEN same("not_a_student")
        ELSE IF fail = "enrollment_select" THEN same("enrollment_error")
        ELSE IF enrollment_result = {} /\ fail = "enrollment_write" THEN same("not_enrolled")
        ELSE IF /\ enrollment_result # {}
                /\ First(enrollment_result).status # "approved"
                /\ fail = "enrollment_write"
        THEN same("pending")
        ELSE IF fail = "attendance_select"
        THEN stop("attendance_check_error", 0, st.ip, enrolled)
        ELSE IF existing_attendance # {}
        THEN stop("already_marked", TimeOfDay(First(existing_attendance).created_at),
                  st.ip, enrolled)
        ELSE [done |-> FALSE, res |-> res("ok", 0), ip |-> st.ip, enr |-> enrolled,
              write |-> [kind |-> "insert", id |-> 0, student_id |-> student_id,
                         class_id |-> password_data.class_id,
                         slot_number |-> password_data.slot_number,
                         attendance_date |-> Date(st.now), status |-> "present",
                         marked_by |-> "instant_password", created_at |-> st.now]]

\* 2066-2083: the response once the insert has been tried
MarkInstantResult(fail) ==
    IF fail = "attendance_write" THEN Resp("mark_instant", "", "save_failed", 0, "none")
    ELSE IF fail = "attendance_empty" THEN Resp("mark_instant", "", "mark_failed", 0, "none")
    ELSE Resp("mark_instant", "", "ok", 0, "insert")

\* a consume that marks the student present over a record that is there
mark_instant_attendance_Overwrites(st, password, student_fid, fail) ==
    LET l == MarkInstantLookup(st, password, student_fid, fail)
    IN  IF l.res.result = "already_marked"
        THEN Out(l.res, l.ip, l.enr,
                 {IF r \in ExistingAttendance(st.att, First(UsersByFirebaseId(student_fid)).id,
                                              st.ip[password].class_id,
                                              st.ip[password].slot_number, Date(st.now))
                  THEN [r EXCEPT !.status = "present", !.marked_by = "instant_password"]
                  ELSE r : r \in st.att})
        ELSE IF l.done THEN Out(l.res, l.ip, l.enr, st.att)
        ELSE Out(MarkInstantResult(fail), l.ip, l.enr, ApplyWrite(st.att, l.write, fail))

\* a consume that uses the password up
mark_instant_attendance_SingleUse(st, password, student_fid, fail) ==
    LET l == MarkInstantLookup(st, password, student_fid, fail)
    IN  IF l.done THEN Out(l.res, l.ip, l.enr, st.att)
        ELSE Out(MarkInstantResult(fail), Del(l.ip, password), l.enr,
                 ApplyWrite(st.att, l.write, fail))

mark_instant_attendance(st, password, student_fid, fail) ==
    LET l == MarkInstantLookup(st, password, student_fid, fail)
    IN  IF l.done THEN Out(l.res, l.ip, l.enr, st.att)
        ELSE Out(MarkInstantResult(fail), l.ip, l.enr, ApplyWrite(st.att, l.write, fail))

----------------------------------------------------------------------------
(* mark_manual_attendance *)

\* 2096-2153: everything up to the lookup of an existing record, and the
\* write it decides on
MarkManualLookup(st, student_fid, class_id, slot_number, status, teacher_fid, fail) ==
    LET res(result) == Resp("mark_manual", "", result, 0, "none")
        stop(result) == [done |-> TRUE, res |-> res(result), write |-> NoWrite]
        teacher_result == UsersByFirebaseId(teacher_fid)
        teacher_id == First(teacher_result).id
        student_result == UsersByFirebaseId(student_fid)
        student_id == First(student_result).id
        existing_attendance ==
            ExistingAttendance(st.att, student_id, class_id, slot_number, Date(st.now))
    IN  IF ~SUPABASE_AVAILABLE THEN stop("demo")
        ELSE IF fail = "users" THEN stop("http_500")
        ELSE IF teacher_result = {} THEN stop("teacher_not_found")
        ELSE IF fail = "classes" THEN stop("http_500")
        ELSE IF ClassesOfTeacher(class_id, teacher_id) = {} THEN stop("unauthorized")
        ELSE IF student_result = {} THEN stop("student_not_found")
        ELSE IF fail = "attendance_select" THEN stop("http_500")
        ELSE IF existing_attendance # {}
        THEN [done |-> FALSE, res |-> res("ok"),
              write |-> [NoWrite EXCEPT !.kind = "update", !.id = First(existing_attendance).id,
                                        !.status = status, !.marked_by = "teacher"]]
        ELSE [done |-> FALSE, res |-> res("ok"),
              write |-> [kind |-> "insert", id |-> 0, student_id |-> student_id,
                         class_id |-> class_id, slot_number |-> slot_number,
                         attendance_date |-> Date(st.now), status |-> status,
                         marked_by |-> "teacher", created_at |-> st.now]]

\* a response that reports the write whether it took place or not
MarkManualResult_SwallowsFailure(w, fail) ==
    Resp("mark_manual", "", "ok", 0, w.kind)

\* 2156-2171: the response once the write has been tried
MarkManualResult(w, fail) ==
    IF fail = "attendance_write" THEN Resp("mark_manual", "", "http_500", 0, "none")
    ELSE IF fail = "attendance_empty" THEN Resp("mark_manual", "", "mark_failed", 0, "none")
    ELSE Resp("mark_manual", "", "ok", 0, w.kind)

mark_manual_attendance(st, student_fid, class_id, slot_number, status, teacher_fid, fail) ==
    LET l == MarkManualLookup(st, student_fid, class_id, slot_number, status, teacher_fid, fail)
    IN  IF l.done THEN Out(l.res, st.ip, st.enr, st.att)
        ELSE Out(MarkManualResult(l.write, fail), st.ip, st.enr,
                 ApplyWrite(st.att, l.write, fail))

----------------------------------------------------------------------------
(* Uploaded images *)

\* What the libraries find in an uploaded image: whether it decodes, the
\* number of faces face_recognition finds (face_locations and face_encodings
\* use the same detector), the box of the first face, the contrast of the
\* face region and the mean brightness, the encoding of the first face (a
\* point on a line, so that face_distance is a difference), whether cv2
\* raises on it, what LivenessDetector says of it when it is installed, and
\* whether it is blurred (a low variance of the Laplacian).
GoodImage ==
    [id |-> 1, loads |-> TRUE, faces |-> 1, face_height |-> MinFaceSize,
     face_width |-> MinFaceSize, contrast |-> MinContrast, brightness |-> MinBrightness,
     encoding |-> 0, cv_error |-> FALSE, detector |-> "live", blurred |-> FALSE]

Images ==
    { GoodImage,
      [GoodImage EXCEPT !.id = 2, !.encoding = Tolerance, !.brightness = MaxBrightness],
      [GoodImage EXCEPT !.id = 3, !.encoding = Tolerance + 1],
      [GoodImage EXCEPT !.id = 4, !.faces = 0],
      [GoodImage EXCEPT !.id = 5, !.faces = 2],
      [GoodImage EXCEPT !.id = 6, !.face_height = MinFaceSize - 1],
      [GoodImage EXCEPT !.id = 7, !.contrast = MinContrast - 1],
      [GoodImage EXCEPT !.id = 8, !.brightness = MaxBrightness + 1],
      [GoodImage EXCEPT !.id = 9, !.faces = 0, !.cv_error = TRUE],
      [GoodImage EXCEPT !.id = 10, !.loads = FALSE],
      [GoodImage EXCEPT !.id = 11, !.detector = "not_live"],
      [GoodImage EXCEPT !.id = 12, !.detector = "raises", !.face_width = MinFaceSize - 1] }

\* further images for the liveness check alone: two checks failing at once,
\* each threshold from its other side, a blurred face, and a face on which
\* cv2 raises
LivenessImages ==
    Images \cup
    { [GoodImage EXCEPT !.id = 13, !.face_width = MinFaceSize - 1, !.contrast = MinContrast - 1],
      [GoodImage EXCEPT !.id = 14, !.contrast = MinContrast - 1, !.brightness = MaxBrightness + 1],
      [GoodImage EXCEPT !.id = 15, !.face_height = MinFaceSize - 1, !.brightness = MinBrightness - 1],
      [GoodImage EXCEPT !.id = 16, !.brightness = MinBrightness - 1],
      [GoodImage EXCEPT !.id = 17, !.blurred = TRUE],
      [GoodImage EXCEPT !.id = 18, !.cv_error = TRUE],
      [GoodImage EXCEPT !.id = 19, !.detector = "raises", !.cv_error = TRUE],
      [GoodImage EXCEPT !.id = 20, !.detector = "not_live", !.blurred = TRUE] }

ImageById(id) == CHOOSE i \in LivenessImages : i.id = id

\* LIVENESS_DETECTION_AVAILABLE and liveness_detector, as a request finds them
DetectorInputs == {FALSE, TRUE}

UserInputs == {"s1", "s2", "t2", "zz"}

EnrollFails ==
    {"none", "users", "image_read", "upsert_with_image", "profile_update", "face_encodings",
     "profile_update_and_upsert"}
RecognizeFails == {"none", "encode", "users", "face_encodings", "match"}
MarkAttendanceFails ==
    {"none", "users", "attendance_select", "attendance_write", "attendance_empty"}

----------------------------------------------------------------------------
(* enhanced_liveness_check *)

\* details: what the callers read with .get("details", {})
Liveness(passed, confidence, message) ==
    [passed |-> passed, confidence |-> confidence, message |-> message, details |-> {}]

\* what liveness_detector.comprehensive_liveness_check returns for an image
\* it does not raise on
comprehensive_liveness_check(image) ==
    [is_live |-> image.detector = "live",
     confidence |-> IF image.detector = "live" THEN 90 ELSE 20,
     message |-> IF image.detector = "live" THEN "detector: live" ELSE "detector: not live",
     checks |-> {"detector_checks"}]

\* a basic check that looks at the contrast before the size of the face, and
\* refuses a blurred image
BasicLivenessCheck_ContrastFirst(image) ==
    IF image.cv_error
    THEN Liveness(TRUE, 50, "Liveness check completed with warnings")
    ELSE IF image.faces # 1
    THEN Liveness(FALSE, 10, "Please ensure only one face is visible in the camera.")
    ELSE IF image.blurred
    THEN Liveness(FALSE, 20, "Image is too blurry.")
    ELSE IF image.contrast < MinContrast
    THEN Liveness(FALSE, 40, "Low image contrast. This might be a photo. Please ensure you're a real person.")
    ELSE IF image.face_height < MinFaceSize \/ image.face_width < MinFaceSize
    THEN Liveness(FALSE, 30, "Face too small. Please move closer to the camera.")
    ELSE IF image.brightness < MinBrightness \/ image.brightness > MaxBrightness
    THEN Liveness(FALSE, 30, "Extreme lighting conditions. Please adjust lighting.")
    ELSE Liveness(TRUE, 80, "Basic liveness check passed")

\* a basic check that refuses the image when cv2 or the face detector raises
BasicLivenessCheck_FailsClosed(image) ==
    IF image.cv_error
    THEN Liveness(FALSE, 0, "Liveness check failed")
    ELSE IF image.faces # 1
    THEN Liveness(FALSE, 10, "Please ensure only one face is visible in the camera.")
    ELSE IF image.face_height < MinFaceSize \/ image.face_width < MinFaceSize
    THEN Liveness(FALSE, 30, "Face too small. Please move closer to the camera.")
    ELSE IF image.contrast < MinContrast
    THEN Liveness(FALSE, 40, "Low image contrast. This might be a photo. Please ensure you're a real person.")
    ELSE IF image.brightness < MinBrightness \/ image.brightness > MaxBrightness
    THEN Liveness(FALSE, 30, "Extreme lighting conditions. Please adjust lighting.")
    ELSE Liveness(TRUE, 80, "Basic liveness check passed")

\* 131-191: the basic check; the blur check is commented out (135-137), so
\* image.blurred is not read
BasicLivenessCheck(image) ==
    IF image.cv_error
    THEN Liveness(TRUE, 50, "Liveness check completed with warnings")
    ELSE IF image.faces # 1
    THEN Liveness(FALSE, 10, "Please ensure only one face is visible in the camera.")
    ELSE IF image.face_height < MinFaceSize \/ image.face_width < MinFaceSize
    THEN Liveness(FALSE, 30, "Face too small. Please move closer to the camera.")
    ELSE IF image.contrast < MinContrast
    THEN Liveness(FALSE, 40, "Low image contrast. This might be a photo. Please ensure you're a real person.")
    ELSE IF image.brightness < MinBrightness \/ image.brightness > MaxBrightness
    THEN Liveness(FALSE, 30, "Extreme lighting conditions. Please adjust lighting.")
    ELSE Liveness(TRUE, 80, "Basic liveness check passed")

\* an evaluator that refuses the image when the detector raises
enhanced_liveness_check_DetectorErrorRefuses(image, detector_available) ==
    IF ~FACE_RECOGNITION_AVAILABLE
    THEN Liveness(TRUE, 95, "Liveness check skipped (demo mode)")
    ELSE IF detector_available /\ image.detector = "raises"
    THEN Liveness(FALSE, 0, "Liveness detection failed")
    ELSE IF detector_available
    THEN LET results == comprehensive_liveness_check(image)
         IN  [passed |-> results.is_live, confidence |-> results.confidence,
              message |-> results.message, details |-> results.checks]
    ELSE BasicLivenessCheck(image)

enhanced_liveness_check(image, detector_available) ==
    IF ~FACE_RECOGNITION_AVAILABLE
    THEN Liveness(TRUE, 95, "Liveness check skipped (demo mode)")
    ELSE IF detector_available /\ image.detector # "raises"
    THEN LET results == comprehensive_liveness_check(image)
         IN  [passed |-> results.is_live, confidence |-> results.confidence,
              message |-> results.message, details |-> results.checks]
    ELSE BasicLivenessCheck(image)

----------------------------------------------------------------------------
(* enroll_face *)

\* the state the face endpoints run in
FaceState ==
    [now |-> now, ip |-> instant_passwords[MainProc], enr |-> class_enrollments,
     att |-> attendance, enc |-> face_encodings, photo |-> profile_photo_url]

\* message, details: the message and the details of the liveness check when
\* it refused, "" and {} otherwise
FaceResp(op, result, recognized, liveness_check, confidence, calls) ==
    [op |-> op, password |-> "", result |-> result, time |-> 0, wrote |-> "none",
     recognized |-> recognized, liveness_check |-> liveness_check,
     confidence |-> confidence, calls |-> calls, message |-> "", details |-> {}]

\* a face endpoint's outcome: its response and the stores as it leaves them
FaceOut(res, st) ==
    [res |-> res, ip |-> st.ip, enr |-> st.enr, att |-> st.att, enc |-> st.enc,
     photo |-> st.photo]

FaceAfter(st, out) ==
    [now |-> st.now, ip |-> out.ip, enr |-> out.enr, att |-> out.att, enc |-> out.enc,
     photo |-> out.photo]

EncodingsOf(enc, user_id) == {r \in enc : r.user_id = user_id}

\* upsert into face_encodings, keyed by user_id: the row of the user is
\* replaced by one with the columns given (an enrolled_image_url that is not
\* given stays as it was), or a row is added when the user has none
Upsert(enc, user_id, encoding, given_image, enrolled_image_url) ==
    LET old == EncodingsOf(enc, user_id)
        kept == IF old = {} THEN NoImage ELSE (CHOOSE r \in old : TRUE).enrolled_image_url
    IN  (enc \ old) \cup
        {[user_id |-> user_id, encoding |-> encoding,
          enrolled_image_url |-> IF given_image THEN enrolled_image_url ELSE kept]}

\* 270-299: the writes of an accepted enrollment. done: FALSE when the last
\* upsert raised, which the handler reports as a database error
EnrollWrites(st, db_user_id, image, fail) ==
    LET with_image == Upsert(st.enc, db_user_id, image.encoding, TRUE, image.id)
        photo_set == [st.photo EXCEPT ![db_user_id] = image.id]
        without(enc) == Upsert(enc, db_user_id, image.encoding, FALSE, NoImage)
    IN  IF fail = "image_read" \/ fail = "upsert_with_image"
        THEN [done |-> TRUE, enc |-> without(st.enc), photo |-> st.photo]
        ELSE IF fail = "face_encodings"
        THEN [done |-> FALSE, enc |-> st.enc, photo |-> st.photo]
        ELSE IF fail = "profile_update"
        THEN [done |-> TRUE, enc |-> without(with_image), photo |-> st.photo]
        ELSE IF fail = "profile_update_and_upsert"
        THEN [done |-> FALSE, enc |-> with_image, photo |-> st.photo]
        ELSE [done |-> TRUE, enc |-> with_image, photo |-> photo_set]

\* an enrollment that looks up the user and does not look at the role
enroll_face_AnyRole(st, image, user_id, detector_available, fail) ==
    LET res(result) == FaceResp("enroll", result, FALSE, FALSE, 0, {})
        same(result) == FaceOut(res(result), st)
        liveness_result == enhanced_liveness_check(image, detector_available)
        user_result == UsersByFirebaseId(user_id)
        w == EnrollWrites(st, First(user_result).id, image, fail)
    IN  IF ~image.loads THEN same("http_500")
        ELSE IF ~liveness_result.passed
        THEN FaceOut([res("liveness_failed") EXCEPT !.message = liveness_result.message,
                               !.details = liveness_result.details], st)
        ELSE IF FACE_RECOGNITION_AVAILABLE /\ image.faces = 0 THEN same("no_face")
        ELSE IF FACE_RECOGNITION_AVAILABLE /\ image.faces > 1 THEN same("multiple_faces")
        ELSE IF ~SUPABASE_AVAILABLE THEN same("demo")
        ELSE IF fail = "users" THEN same("database_error")
        ELSE IF user_result = {} THEN same("user_not_found")
        ELSE FaceOut(res(IF w.done THEN "ok" ELSE "database_error"),
                     [st EXCEPT !.enc = w.enc, !.photo = w.photo])

\* an enrollment that gives up when the image or the profile photo cannot be
\* stored
enroll_face_ImageRequired(st, image, user_id, detector_available, fail) ==
    LET res(result) == FaceResp("enroll", result, FALSE, FALSE, 0, {})
        same(result) == FaceOut(res(result), st)
        liveness_result == enhanced_liveness_check(image, detector_available)
        user_result == UsersByFirebaseId(user_id)
        w == EnrollWrites(st, First(user_result).id, image, fail)
    IN  IF ~image.loads THEN same("http_500")
        ELSE IF ~liveness_result.passed
        THEN FaceOut([res("liveness_failed") EXCEPT !.message = liveness_result.message,
                               !.details = liveness_result.details], st)
        ELSE IF FACE_RECOGNITION_AVAILABLE /\ image.faces = 0 THEN same("no_face")
        ELSE IF FACE_RECOGNITION_AVAILABLE /\ image.faces > 1 THEN same("multiple_faces")
        ELSE IF ~SUPABASE_AVAILABLE THEN same("demo")
        ELSE IF fail = "users" THEN same("database_error")
        ELSE IF user_result = {} THEN same("user_not_found")
        ELSE IF First(user_result).role # "student" THEN same("not_a_student")
        ELSE IF fail # "none" THEN same("database_error")
        ELSE FaceOut(res("ok"), [st EXCEPT !.enc = w.enc, !.photo = w.photo])

\* an enrollment that adds a row to face_encodings each time
enroll_face_Inserts(st, image, user_id, detector_available, fail) ==
    LET res(result) == FaceResp("enroll", result, FALSE, FALSE, 0, {})
        same(result) == FaceOut(res(result), st)
        liveness_result == enhanced_liveness_check(image, detector_available)
        user_result == UsersByFirebaseId(user_id)
    IN  IF ~image.loads THEN same("http_500")
        ELSE IF ~liveness_result.passed
        THEN FaceOut([res("liveness_failed") EXCEPT !.message = liveness_result.message,
                               !.details = liveness_result.details], st)
        ELSE IF FACE_RECOGNITION_AVAILABLE /\ image.faces = 0 THEN same("no_face")
        ELSE IF FACE_RECOGNITION_AVAILABLE /\ image.faces > 1 THEN same("multiple_faces")
        ELSE IF ~SUPABASE_AVAILABLE THEN same("demo")
        ELSE IF fail = "users" THEN same("database_error")
        ELSE IF user_result = {} THEN same("user_not_found")
        ELSE IF First(user_result).role # "student" THEN same("not_a_student")
        ELSE FaceOut(res("ok"),
                     [st EXCEPT !.enc = @ \cup {[user_id |-> First(user_result).id,
                                                 encoding |-> image.encoding,
                                                 enrolled_image_url |-> image.id]},
                                !.photo = [@ EXCEPT ![First(user_result).id] = image.id]])

enroll_face(st, image, user_id, detector_available, fail) ==
    LET res(result) == FaceResp("enroll", result, FALSE, FALSE, 0, {})
        same(result) == FaceOut(res(result), st)
        liveness_result == enhanced_liveness_check(image, detector_available)
        user_result == UsersByFirebaseId(user_id)
        w == EnrollWrites(st, First(user_result).id, image, fail)
    IN  IF ~image.loads THEN same("http_500")
        ELSE IF ~liveness_result.passed
        THEN FaceOut([res("liveness_failed") EXCEPT !.message = liveness_result.message,
                               !.details = liveness_result.details], st)
        ELSE IF FACE_RECOGNITION_AVAILABLE /\ image.faces = 0 THEN same("no_face")
        ELSE IF FACE_RECOGNITION_AVAILABLE /\ image.faces > 1 THEN same("multiple_faces")
        ELSE IF ~SUPABASE_AVAILABLE THEN same("demo")
        ELSE IF fail = "users" THEN same("database_error")
        ELSE IF user_result = {} THEN same("user_not_found")
        ELSE IF First(user_result).role # "student" THEN same("not_a_student")
        ELSE FaceOut(res(IF w.done THEN "ok" ELSE "database_error"),
                     [st EXCEPT !.enc = w.enc, !.photo = w.photo])

----------------------------------------------------------------------------
(* recognize_face *)

\* face_recognition.face_distance and compare_faces, on one known encoding
face_distance(known, unknown) == IF known >= unknown THEN known - unknown ELSE unknown - known

\* a matcher that accepts every face
compare_faces_AcceptsAll(known, unknown, tolerance) == TRUE

compare_faces(known, unknown, tolerance) == face_distance(known, unknown) <= tolerance

\* 354-450: what follows a passed liveness check; calls are the steps taken
RecognizeAfterLiveness(st, image, user_id, fail) ==
    LET res(result, recognized, liveness_check, confidence, calls) ==
            FaceResp("recognize", result, recognized, liveness_check, confidence,
                     {"liveness"} \cup calls)
        user_result == UsersByFirebaseId(user_id)
        result == EncodingsOf(st.enc, First(user_result).id)
        stored_encoding == (CHOOSE r \in result : TRUE).encoding
        distance == face_distance(stored_encoding, image.encoding)
    IN  IF ~FACE_RECOGNITION_AVAILABLE THEN res("demo", TRUE, TRUE, 95, {})
        ELSE IF fail = "encode" THEN res("http_500", FALSE, FALSE, 0, {"encode"})
        ELSE IF image.faces = 0 THEN res("no_face", FALSE, TRUE, 0, {"encode"})
        ELSE IF image.faces > 1 THEN res("multiple_faces", FALSE, TRUE, 0, {"encode"})
        ELSE IF ~SUPABASE_AVAILABLE THEN res("demo", TRUE, TRUE, 95, {"encode"})
        ELSE IF fail = "users" THEN res("database_error", FALSE, FALSE, 0, {"encode", "users"})
        ELSE IF user_result = {}
        THEN res("user_not_found", FALSE, TRUE, 0, {"encode", "users"})
        ELSE IF fail = "face_encodings"
        THEN res("database_error", FALSE, FALSE, 0, {"encode", "users", "face_encodings"})
        ELSE IF result = {}
        THEN res("not_enrolled", FALSE, TRUE, 0, {"encode", "users", "face_encodings"})
        ELSE IF fail = "match"
        THEN res("database_error", FALSE, FALSE, 0,
                 {"encode", "users", "face_encodings", "match"})
        ELSE IF compare_faces(stored_encoding, image.encoding, Tolerance)
        THEN res("recognized", TRUE, TRUE, 100 - 10 * distance,
                 {"encode", "users", "face_encodings", "match"})
        ELSE res("not_recognized", FALSE, TRUE, 100 - 10 * distance,
                 {"encode", "users", "face_encodings", "match"})

\* a recognition that runs the matcher first and looks at liveness afterwards
recognize_face_LivenessLast(st, image, user_id, detector_available, fail) ==
    LET liveness_result == enhanced_liveness_check(image, detector_available)
        r == RecognizeAfterLiveness(st, image, user_id, fail)
    IN  IF ~image.loads
        THEN FaceOut(FaceResp("recognize", "http_500", FALSE, FALSE, 0, {}), st)
        ELSE IF ~liveness_result.passed
        THEN FaceOut([r EXCEPT !.result = "liveness_failed", !.recognized = FALSE,
                               !.liveness_check = FALSE,
                               !.confidence = liveness_result.confidence,
                               !.message = liveness_result.message,
                               !.details = liveness_result.details], st)
        ELSE FaceOut(r, st)

\* a recognition that marks the student present once the face is recognized
recognize_face_Marks(st, image, user_id, detector_available, fail) ==
    LET liveness_result == enhanced_liveness_check(image, detector_available)
        r == RecognizeAfterLiveness(st, image, user_id, fail)
    IN  IF ~image.loads
        THEN FaceOut(FaceResp("recognize", "http_500", FALSE, FALSE, 0, {}), st)
        ELSE IF ~liveness_result.passed
        THEN FaceOut([FaceResp("recognize", "liveness_failed", FALSE, FALSE,
                               liveness_result.confidence, {"liveness"})
                        EXCEPT !.message = liveness_result.message,
                               !.details = liveness_result.details], st)
        ELSE IF r.recognized
        THEN FaceOut(r, [st EXCEPT !.att = @ \cup
                          {[id |-> NextId(st.att), student_id |-> NULL, class_id |-> NULL,
                            slot_number |-> NULL, attendance_date |-> NULL,
                            status |-> "present", marked_by |-> "", created_at |-> NULL,
                            user_id |-> First(UsersByFirebaseId(user_id)).id,
                            date |-> Date(st.now)]}])
        ELSE FaceOut(r, st)

recognize_face(st, image, user_id, detector_available, fail) ==
    LET liveness_result == enhanced_liveness_check(image, detector_available)
    IN  IF ~image.loads
        THEN FaceOut(FaceResp("recognize", "http_500", FALSE, FALSE, 0, {}), st)
        ELSE IF ~liveness_result.passed
        THEN FaceOut([FaceResp("recognize", "liveness_failed", FALSE, FALSE,
                               liveness_result.confidence, {"liveness"})
                        EXCEPT !.message = liveness_result.message,
                               !.details = liveness_result.details], st)
        ELSE FaceOut(RecognizeAfterLiveness(st, image, user_id, fail), st)

----------------------------------------------------------------------------
(* mark_attendance *)

\* the records of a user and a day, by the columns user_id and date
ExistingByUserAndDate(att, user_id, date) ==
    {r \in att : r.user_id = user_id /\ r.date = date}

mark_attendance(st, firebase_id, status, fail) ==
    LET same(result) ==
            FaceOut(FaceResp("mark_attendance", result, FALSE, FALSE, 0, {}), st)
        user_result == UsersByFirebaseId(firebase_id)
        db_user_id == First(user_result).id
        today == Date(st.now)
    IN  IF ~SUPABASE_AVAILABLE THEN same("no_database")
        ELSE IF fail = "users" THEN same("database_error")
        ELSE IF user_result = {} THEN same("user_not_found")
        ELSE IF fail = "attendance_select" THEN same("database_error")
        ELSE IF ExistingByUserAndDate(st.att, db_user_id, today) # {}
        THEN same("already_marked_today")
        ELSE IF fail = "attendance_write" THEN same("database_error")
        \* 596-600: an insert that returns no row is answered with success and
        \* data None
        ELSE IF fail = "attendance_empty" THEN same("ok")
        ELSE FaceOut([FaceResp("mark_attendance", "ok", FALSE, FALSE, 0, {})
                        EXCEPT !.wrote = "insert"],
                     [st EXCEPT !.att = @ \cup
                        {[id |-> NextId(st.att), student_id |-> NULL, class_id |-> NULL,
                          slot_number |-> NULL, attendance_date |-> NULL,
                          status |-> status, marked_by |-> "", created_at |-> NULL,
                          user_id |-> db_user_id, date |-> today]}])

----------------------------------------------------------------------------
(* The server: one request at a time per process *)

Idle == [op |-> "idle", password |-> "", write |-> NoWrite]

NoResponse == Resp("none", "", "", 0, "none")

\* the enrollments the database starts with: student 1 has none, student 2
\* has one in class 1 that is not approved
InitialEnrollments ==
    {[id |-> 1, student_id |-> 2, class_id |-> 1, status |-> "pending"]}

Init ==
    /\ now = StartTime
    /\ instant_passwords = [p \in Procs |-> EmptyDict]
    /\ class_enrollments = InitialEnrollments
    /\ attendance = {}
    /\ inflight = [p \in Procs |-> Idle]
    /\ served = 0
    /\ response = NoResponse
    /\ face_encodings = {}
    /\ profile_photo_url = [u \in {r.id : r \in users} |-> NoImage]

\* process p has run a handler to its end, with outcome r
Serve(p, r) ==
    /\ inflight[p] = Idle
    /\ served < MaxRequests
    /\ Cardinality(r.att) <= MaxRecords
    /\ served' = served + 1
    /\ instant_passwords' = [instant_passwords EXCEPT ![p] = r.ip]
    /\ class_enrollments' = r.enr
    /\ attendance' = r.att
    /\ response' = r.res
    /\ UNCHANGED <<now, inflight, face_encodings, profile_photo_url>>

Tick ==
    /\ now < StartTime + MaxTicks
    /\ now' = now + 1
    /\ UNCHANGED <<instant_passwords, class_enrollments, attendance, inflight, served, response,
                    face_encodings, profile_photo_url>>

\* The requests the server is sent. A failure of the database is sent only
\* where it leaves a mark (a refused write); every other failure changes
\* nothing but the response, and the properties below evaluate the handlers
\* on every input, failures included, in every state reached.
Generate(p) ==
    \E class_id \in {1}, slot_number \in SlotInputs, teacher_fid \in {"t1", "t2"},
       draw \in RandomDraws :
        Serve(p, generate_instant_password(State(p), class_id, slot_number, teacher_fid, draw, "none"))

Invalidate(p) ==
    \E password \in Passwords, teacher_fid \in {"t1", "t2"} :
        Serve(p, invalidate_instant_password(State(p), password, teacher_fid, "none"))

Validate(p) ==
    \E password \in Passwords, student_fid \in {"s1", "s2", "t2"} :
        Serve(p, validate_instant_password(State(p), password, student_fid, "none"))

MarkInstant(p) ==
    \E password \in Passwords, student_fid \in {"s1", "s2", "t2"},
       fail \in {"none", "attendance_write"} :
        Serve(p, mark_instant_attendance(State(p), password, student_fid, fail))

MarkManual(p) ==
    \E student_fid \in {"s1", "s2"}, slot_number \in SlotInputs, status \in StatusInputs,
       teacher_fid \in {"t1", "t2"}, fail \in {"none", "attendance_write"} :
        Serve(p, mark_manual_attendance(State(p), student_fid, 1, slot_number, status,
                                        teacher_fid, fail))

Next ==
    \/ Tick
    \/ Generate(MainProc)
    \/ Invalidate(MainProc)
    \/ Validate(MainProc)
    \/ MarkInstant(MainProc)
    \/ MarkManual(MainProc)

Spec == Init /\ [][Next]_vars

----------------------------------------------------------------------------
(* Two server processes on one database: a mark request is two steps, the   *)
(* lookup of an existing record (with all that precedes it) and the write   *)
(* it decided on, and the other process may run between them.               *)

\* the lookup ended the request (done), or the request waits to write
Begin(p, op, l, ip, enr) ==
    /\ inflight[p] = Idle
    /\ served < MaxRequests
    /\ served' = served + 1
    /\ instant_passwords' = [instant_passwords EXCEPT ![p] = ip]
    /\ class_enrollments' = enr
    /\ IF l.done
       THEN response' = l.res /\ UNCHANGED inflight
       ELSE /\ inflight' = [inflight EXCEPT ![p] = [op |-> op, password |-> "", write |-> l.write]]
            /\ UNCHANGED response
    /\ UNCHANGED <<now, attendance, face_encodings, profile_photo_url>>

BeginMarkInstant(p) ==
    \E password \in Passwords, student_fid \in {"s1", "s2"} :
        LET l == MarkInstantLookup(State(p), password, student_fid, "none")
        IN  Begin(p, "mark_instant", l, l.ip, l.enr)

BeginMarkManual(p) ==
    \E student_fid \in {"s1", "s2"}, slot_number \in SlotInputs, status \in StatusInputs :
        LET l == MarkManualLookup(State(p), student_fid, 1, slot_number, status, "t1", "none")
        IN  Begin(p, "mark_manual", l, instant_passwords[p], class_enrollments)

FinishMark(p) ==
    /\ inflight[p] # Idle
    /\ \E fail \in {"none", "attendance_write"} :
        /\ attendance' = ApplyWrite(attendance, inflight[p].write, fail)
        /\ response' = IF inflight[p].op = "mark_instant"
                       THEN MarkInstantResult(fail)
                       ELSE MarkManualResult(inflight[p].write, fail)
    /\ Cardinality(attendance') <= MaxRecords
    /\ inflight' = [inflight EXCEPT ![p] = Idle]
    /\ UNCHANGED <<now, instant_passwords, class_enrollments, served, face_encodings,
                    profile_photo_url>>

\* the clock stands still in SpecConc: the requests of a race arrive within
\* the same minute
NextConc ==
    \/ \E p \in Procs : Generate(p)
    \/ \E p \in Procs : BeginMarkInstant(p)
    \/ \E p \in Procs : BeginMarkManual(p)
    \/ \E p \in Procs : FinishMark(p)

SpecConc == Init /\ [][NextConc]_vars

----------------------------------------------------------------------------
(* One server process, several requests in flight on its event loop: the    *)
(* coroutines of the requests share instant_passwords and change places     *)
(* only where a handler awaits. The slots of Procs hold the requests.       *)

OtpOps == {"generate", "invalidate", "validate", "mark_instant"}

\* a request the framework has read and not yet handed to its handler
Received(op, password) ==
    [op |-> op, password |-> password, phase |-> "received", seen |-> FALSE]

\* a handler that awaits between its existence check of the code and its use
\* of the session
NextAwait_AfterCheck(op, phase) ==
    IF op # "generate" /\ phase = "received" THEN "checked" ELSE "end"

\* where a handler of the instant-password endpoints next gives up the event
\* loop, from the phase it is in: the four handlers are async def without an
\* await, and the database calls in them block, so each runs to its end
NextAwait(op, phase) == "end"

\* the handler of request q, run on the store as it is now
RunHandler(q, draw) ==
    IF q.op = "generate"
    THEN generate_instant_password(State(MainProc), 1, 1, "t1", draw, "none")
    ELSE IF q.op = "invalidate"
    THEN invalidate_instant_password(State(MainProc), q.password, "t1", "none")
    ELSE IF q.op = "validate"
    THEN validate_instant_password(State(MainProc), q.password, "s1", "none")
    ELSE mark_instant_attendance(State(MainProc), q.password, "s1", "none")

\* instant_passwords[password] on a key that is gone: a KeyError, which the
\* handler's outer except answers
RaceError(q) ==
    Out(Resp(q.op, "", "race_error", 0, "none"), instant_passwords[MainProc],
        class_enrollments, attendance)

Receive(c) ==
    /\ inflight[c] = Idle
    /\ served < MaxRequests
    /\ served' = served + 1
    /\ \E op \in OtpOps, password \in Passwords :
           inflight' = [inflight EXCEPT ![c] = Received(op, password)]
    /\ UNCHANGED <<now, instant_passwords, class_enrollments, attendance, response,
                    face_encodings, profile_photo_url>>

\* the event loop resumes the coroutine in slot c, which runs to its next
\* await or to its end
Run(c) ==
    /\ inflight[c] # Idle
    /\ LET q == inflight[c]
           stop == NextAwait(q.op, q.phase)
       IN  IF q.phase = "received" /\ stop = "checked"
           THEN /\ inflight' = [inflight EXCEPT ![c] =
                                   [q EXCEPT !.phase = "checked",
                                             !.seen = q.password \in DOMAIN instant_passwords[MainProc]]]
                /\ UNCHANGED <<instant_passwords, class_enrollments, attendance, response>>
           ELSE \E draw \in RandomDraws :
                   LET r == IF /\ q.phase = "checked"
                               /\ q.seen
                               /\ q.password \notin DOMAIN instant_passwords[MainProc]
                            THEN RaceError(q)
                            ELSE RunHandler(q, draw)
                   IN  /\ Cardinality(r.att) <= MaxRecords
                       /\ instant_passwords' = [instant_passwords EXCEPT ![MainProc] = r.ip]
                       /\ class_enrollments' = r.enr
                       /\ attendance' = r.att
                       /\ response' = r.res
                       /\ inflight' = [inflight EXCEPT ![c] = Idle]
    /\ UNCHANGED <<now, served, face_encodings, profile_photo_url>>

NextAsync ==
    \/ Tick
    \/ \E c \in Procs : Receive(c)
    \/ \E c \in Procs : Run(c)

SpecAsync == Init /\ [][NextAsync]_vars

----------------------------------------------------------------------------
(* The face endpoints and the older attendance endpoint, served by the one  *)
(* process next to generate and the manual mark                             *)

ServeFace(r) ==
    /\ inflight[MainProc] = Idle
    /\ served < MaxRequests
    /\ Cardinality(r.att) <= MaxRecords
    /\ served' = served + 1
    /\ instant_passwords' = [instant_passwords EXCEPT ![MainProc] = r.ip]
    /\ class_enrollments' = r.enr
    /\ attendance' = r.att
    /\ face_encodings' = r.enc
    /\ profile_photo_url' = r.photo
    /\ response' = r.res
    /\ UNCHANGED <<now, inflight>>

\* the images the server is sent: a face, a face at the tolerance from it, a
\* face beyond the tolerance, and two faces; the properties below evaluate
\* the handlers on every image of Images
SentImages == {i \in Images : i.id \in {1, 2, 3, 5}}

Enroll ==
    \E image \in SentImages, user_id \in {"s1", "s2", "t2"}, detector_available \in DetectorInputs,
       fail \in {"none", "image_read", "profile_update_and_upsert"} :
        ServeFace(enroll_face(FaceState, image, user_id, detector_available, fail))

Recognize ==
    \E image \in SentImages, user_id \in {"s1", "s2"}, detector_available \in DetectorInputs :
        ServeFace(recognize_face(FaceState, image, user_id, detector_available, "none"))

MarkAttendance ==
    \E firebase_id \in {"s1", "s2"}, status \in StatusInputs :
        ServeFace(mark_attendance(FaceState, firebase_id, status, "none"))

\* the clock stands still in SpecFace: of these endpoints only
\* mark_attendance reads it, for today's date
NextFace ==
    \/ Enroll
    \/ Recognize
    \/ MarkAttendance
    \/ Generate(MainProc)
    \/ MarkManual(MainProc)

SpecFace == Init /\ [][NextFace]_vars

----------------------------------------------------------------------------
(* The face endpoints alone, sent every image of LivenessImages by student  *)
(* s1: the specification the properties of enhanced_liveness_check are      *)
(* checked under                                                            *)

EnrollAny ==
    \E image \in LivenessImages, detector_available \in DetectorInputs :
        ServeFace(enroll_face(FaceState, image, "s1", detector_available, "none"))

RecognizeAny ==
    \E image \in LivenessImages, detector_available \in DetectorInputs :
        ServeFace(recognize_face(FaceState, image, "s1", detector_available, "none"))

NextLiveness ==
    \/ EnrollAny
    \/ RecognizeAny

SpecLiveness == Init /\ [][NextLiveness]_vars

----------------------------------------------------------------------------
(* Properties *)

Store == instant_passwords[MainProc]

\* the state the next request of the main process runs in
St == State(MainProc)

\* the internal id of the user a firebase id names
IdOf(fid) == First(UsersByFirebaseId(fid)).id

\* the records of the key (user fid, the class and slot of session c, today)
RowsFor(att, fid, c) ==
    ExistingAttendance(att, IdOf(fid), Store[c].class_id, Store[c].slot_number, Date(now))

\* the session of code c is stored and not past its expires_at
Active(ip, c) == c \in DOMAIN ip /\ ~(now > ip[c].expires_at)

SameKey(r1, r2) ==
    /\ r1.student_id = r2.student_id
    /\ r1.class_id = r2.class_id
    /\ r1.slot_number = r2.slot_number
    /\ r1.attendance_date = r2.attendance_date

NoDuplicateAttendance(att) == \A r1, r2 \in att : SameKey(r1, r2) => r1 = r2

\* C1: whatever requests were served, one after the other and failed ones
\* included, the attendance table holds at most one record for each
\* (student, class, slot_number, attendance_date).
C1_AtMostOneRecordPerKey == NoDuplicateAttendance(attendance)

\* a second mark of a key has updated its record, and the table holds two
\* records of different keys
C1_Witness ==
    /\ response.wrote = "update"
    /\ Cardinality(attendance) = 2

\* C2: with the mark requests of two server processes interleaved, no key
\* (student, class, slot, date) ever has two attendance records: the lookup
\* of a request and the write that follows it act as one step.
C2_ConcurrentMarksKeepOneRecord ==
    \A r \in attendance :
        Cardinality(ExistingAttendance(attendance, r.student_id, r.class_id,
                                       r.slot_number, r.attendance_date)) = 1

\* C3: a successful generate_instant_password leaves every Active session as
\* it was and returns a code that no Active session has.
C3_IssueAvoidsActiveCodes ==
    [][(served' = served + 1 /\ response'.op = "generate" /\ response'.result = "ok") =>
         \A c \in DOMAIN Store :
           Active(Store, c) => (response'.password # c /\ Store'[c] = Store[c])]_vars

\* the two refusals that tell the caller the password has expired:
\* "Password has expired ... Please ask your teacher for a new one." while
\* the session is still stored (1857, 1986), and "Invalid or expired
\* password. Please check with your teacher." once it is gone from the store
\* (1846, 1975)
ExpiredResults == {"expired", "invalid_or_expired"}

\* C4: a validate or consume that names a student and a code whose session is
\* past its expires_at is refused as expired, the session is dropped and
\* neither attendance nor enrollments are written; once the session is gone
\* from the store the same call is refused with the "Invalid or expired
\* password" message, again writing nothing; and a call before expires_at is
\* never refused as expired. This holds whatever the database does.
C4_ExpiredCodeIsRefused ==
    \A c \in Passwords, s \in StudentInputs \ {""} :
        LET refused(o, result) ==
                /\ o.res.result = result
                /\ c \notin DOMAIN o.ip
                /\ o.enr = class_enrollments
                /\ o.att = attendance
            answer(o) ==
                IF c \notin DOMAIN Store THEN refused(o, "invalid_or_expired")
                ELSE IF now > Store[c].expires_at THEN refused(o, "expired")
                ELSE now < Store[c].expires_at => o.res.result \notin ExpiredResults
        IN  /\ \A f \in ValidateFails :
                 \A o \in {validate_instant_password(St, c, s, f)} : answer(o)
            /\ \A f \in MarkInstantFails :
                 \A o \in {mark_instant_attendance(St, c, s, f)} : answer(o)

\* a consume after the session's expires_at was refused as expired: the
\* session is gone from the store and nothing was recorded
C4_Witness ==
    /\ response.op = "mark_instant"
    /\ response.result = "expired"
    /\ Store = EmptyDict
    /\ attendance = {}

\* C5: invalidate of an Active session by a known user who is not the
\* session's teacher answers unauthorized and changes nothing: the session
\* stays stored, and validate and consume with its code answer as they did
\* before, not as for an unknown or expired code.
C5_OtherTeacherCannotInvalidate ==
    \A c \in DOMAIN Store, t \in TeacherInputs :
        LET i == invalidate_instant_password(St, c, t, "none")
        IN  (/\ Active(Store, c)
             /\ UsersByFirebaseId(t) # {}
             /\ IdOf(t) # Store[c].teacher_id) =>
                /\ i.res.result = "unauthorized"
                /\ i.ip = Store /\ i.enr = class_enrollments /\ i.att = attendance
                /\ \A s \in StudentInputs \ {""} :
                     /\ validate_instant_password(After(St, i), c, s, "none").res.result
                          \notin ExpiredResults
                     /\ mark_instant_attendance(After(St, i), c, s, "none").res.result
                          \notin ExpiredResults

\* an invalidate was answered unauthorized and every stored session is Active
C5_Witness ==
    /\ response.op = "invalidate"
    /\ response.result = "unauthorized"
    /\ Store # EmptyDict
    /\ \A c \in DOMAIN Store : Active(Store, c)

\* C6: invalidate of a stored session by its own teacher succeeds whether or
\* not the session has expired, and removes that session and no other; in the
\* state it leaves, validate and consume with the code are refused as for an
\* unknown code and write nothing; and a code comes (back) into the store only
\* by a successful generate that returns it.
C6_IssuerInvalidateRemovesSession ==
    /\ [](\A c \in DOMAIN Store, t \in TeacherInputs :
            LET i == invalidate_instant_password(St, c, t, "none")
            IN  (UsersByFirebaseId(t) # {} /\ IdOf(t) = Store[c].teacher_id) =>
                   /\ i.res.result = "ok"
                   /\ DOMAIN i.ip = DOMAIN Store \ {c}
                   /\ \A d \in DOMAIN i.ip : i.ip[d] = Store[d]
                   /\ \A s \in StudentInputs \ {""}, f \in {"none", "users"} :
                        LET v == validate_instant_password(After(St, i), c, s, f)
                            m == mark_instant_attendance(After(St, i), c, s, f)
                        IN  /\ v.res.result = "invalid_or_expired"
                            /\ m.res.result = "invalid_or_expired"
                            /\ v.att = attendance /\ m.att = attendance)
    /\ [][\A c \in Passwords :
            (c \notin DOMAIN Store /\ c \in DOMAIN Store') =>
               (response'.op = "generate" /\ response'.result = "ok" /\ response'.password = c)]_vars

\* the teacher of a session has invalidated it before any session could
\* expire, and the store is empty
C6_Witness ==
    /\ response.op = "invalidate"
    /\ response.result = "ok"
    /\ Store = EmptyDict
    /\ now < StartTime + TTL

\* C7, as the specification states it: whichever of the two paths the two
\* marks of a key take, the key ends with exactly one record whose status is
\* that of the second call ("present" for a consume). Here the second call is
\* a consume with the code of the session of the key.
C7_SecondMarkDecidesStatus ==
    \A c \in DOMAIN Store, s \in {"s1", "s2"}, status \in StatusInputs :
        LET first == mark_manual_attendance(St, s, Store[c].class_id, Store[c].slot_number,
                                            status, "t1", "none")
            second == mark_instant_attendance(After(St, first), c, s, "none")
        IN  (Active(Store, c) /\ first.res.result = "ok" /\ status # "present") =>
               /\ Cardinality(RowsFor(second.att, s, c)) = 1
               /\ \A r \in RowsFor(second.att, s, c) : r.status = "present"

\* C7, amended: when the second mark of a key is a manual mark that succeeds,
\* whichever path the first took, the key ends with exactly one record and
\* its status is that of the manual mark.
C7_SecondManualMarkDecidesStatus ==
    \A s \in {"s1", "s2", "t2"}, slot_number \in SlotInputs, status \in StatusInputs :
        LET key(att) == ExistingAttendance(att, IdOf(s), 1, slot_number, Date(now))
            second(st) == mark_manual_attendance(st, s, 1, slot_number, status, "t1", "none")
            decided(o) ==
                o.res.result = "ok" =>
                   /\ Cardinality(key(o.att)) = 1
                   /\ \A r \in key(o.att) : r.status = status
        IN  /\ \A status1 \in StatusInputs \ {status} :
                 LET first == mark_manual_attendance(St, s, 1, slot_number, status1, "t1", "none")
                 IN  first.res.result = "ok" => decided(second(After(St, first)))
            /\ \A c \in DOMAIN Store :
                 LET first == mark_instant_attendance(St, c, s, "none")
                 IN  (/\ first.res.result = "ok"
                      /\ Store[c].class_id = 1 /\ Store[c].slot_number = slot_number
                      /\ status # "present") => decided(second(After(St, first)))

\* a manual mark has changed to absent a record that a consume created in an
\* earlier minute
C7_Witness ==
    /\ response.op = "mark_manual"
    /\ response.wrote = "update"
    /\ \E r \in attendance :
         r.status = "absent" /\ r.marked_by = "teacher" /\ r.created_at < now

\* C8: a validate or consume that succeeds leaves the store of sessions as it
\* was; and with an Active code, two different students neither of whom has a
\* record for the session's key yet both consume it successfully, in either
\* order, the key of each then holding exactly one record and the session
\* still stored unchanged. (The requests of one process run one at a time, so
\* two concurrent consumes are two consumes in one of the two orders.)
C8_CodeIsMultiUse ==
    /\ \A c \in DOMAIN Store, s \in StudentInputs, f \in ValidateFails \cup MarkInstantFails :
         \A o \in {validate_instant_password(St, c, s, f), mark_instant_attendance(St, c, s, f)} :
             o.res.result = "ok" => o.ip = Store
    /\ \A c \in DOMAIN Store, a, b \in {"s1", "s2"} :
         LET m1 == mark_instant_attendance(St, c, a, "none")
             m2 == mark_instant_attendance(After(St, m1), c, b, "none")
         IN  (/\ a # b
              /\ Active(Store, c)
              /\ RowsFor(attendance, a, c) = {}
              /\ RowsFor(attendance, b, c) = {}) =>
                /\ m1.res.result = "ok"
                /\ m2.res.result = "ok"
                /\ m2.ip = Store
                /\ Cardinality(RowsFor(m2.att, a, c)) = 1
                /\ Cardinality(RowsFor(m2.att, b, c)) = 1

\* both students have consumed one code, which is still Active in the store
C8_Witness ==
    /\ response.op = "mark_instant"
    /\ response.result = "ok"
    /\ \E c \in DOMAIN Store :
         /\ Active(Store, c)
         /\ \A s \in {"s1", "s2"} :
              \E r \in RowsFor(attendance, s, c) : r.marked_by = "instant_password"

\* C9: when a student has a record for the key of an Active session, validate
\* and consume with the session's code both answer already_marked, with the
\* time of day at which that record was created.
C9_ExistingRecordIsAlreadyMarked ==
    \A c \in DOMAIN Store, s \in {"s1", "s2"} :
        LET v == validate_instant_password(St, c, s, "none")
            m == mark_instant_attendance(St, c, s, "none")
        IN  Active(Store, c) =>
               \A r \in RowsFor(attendance, s, c) :
                  /\ v.res.result = "already_marked"
                  /\ v.res.time = TimeOfDay(r.created_at)
                  /\ m.res.result = "already_marked"
                  /\ m.res.time = TimeOfDay(r.created_at)

\* C10: validate_instant_password, on every input and whatever the database
\* does, leaves the attendance table as it found it.
C10_ValidateWritesNoAttendance ==
    \A c \in PasswordInputs, s \in StudentInputs, f \in ValidateFails :
        validate_instant_password(St, c, s, f).att = attendance

\* a validate has succeeded while the attendance table holds records
C10_Witness ==
    /\ response.op = "validate"
    /\ response.result = "ok"
    /\ attendance # {}

----------------------------------------------------------------------------
(* Properties of the face endpoints, checked under SpecFace *)

\* the stores as an outcome leaves them are the stores of st
SameStores(st, o) ==
    /\ o.ip = st.ip
    /\ o.enr = st.enr
    /\ o.att = st.att
    /\ o.enc = st.enc
    /\ o.photo = st.photo

\* C11: recognize_face never writes an attendance record and never changes
\* the embedding store or the OTP store, whatever its outcome: in every state
\* reached, for every image, user, detector and database failure, the stores
\* it leaves are the stores it found.
C11_RecognizeChangesNothing ==
    \A image \in Images, user_id \in UserInputs, detector_available \in DetectorInputs,
       fail \in RecognizeFails :
        \A o \in {recognize_face(FaceState, image, user_id, detector_available, fail)} :
            SameStores(FaceState, o)

\* a face has been recognized while attendance records and embeddings exist
C11_Witness ==
    /\ response.op = "recognize"
    /\ response.result = "recognized"
    /\ attendance # {}
    /\ face_encodings # {}

EnrollAdmits(image, user_id, detector_available) ==
    /\ image.loads
    /\ enhanced_liveness_check(image, detector_available).passed
    /\ image.faces = 1
    /\ \E u \in UsersByFirebaseId(user_id) : u.role = "student"

----------------------------------------------------------------------------
(* Properties of the instant-attendance handlers, continued (Spec) *)

\* C14: auto-enrollment and auto-approval, in validate and in consume, only
\* create or approve a class enrollment for a person whose role is student:
\* every row of class_enrollments belongs to a student, in every state.
C14_EnrollmentsBelongToStudents ==
    \A r \in class_enrollments :
        \E u \in users : u.id = r.student_id /\ u.role = "student"

\* C15: consume repeats the checks of validate: in every state, for every
\* code and person (the database answering), mark_instant_attendance refuses
\* exactly when validate_instant_password refuses in that state, with the
\* same kind of refusal, and otherwise inserts the attendance record.
C15_ConsumeRepeatsValidate ==
    \A password \in PasswordInputs, student_fid \in StudentInputs :
        \A v \in {validate_instant_password(St, password, student_fid, "none")},
           m \in {mark_instant_attendance(St, password, student_fid, "none")} :
            /\ v.res.result = m.res.result
            /\ m.res.result = "ok" => m.res.wrote = "insert"

----------------------------------------------------------------------------
(* Properties of the face endpoints, continued (SpecFace) *)

\* C16: every code path that inserts an attendance record looks up the full
\* key (person, class, slot, date) first and inserts only when no record has
\* it, and none writes a record keyed otherwise: every attendance record
\* names its student, class, slot and attendance date, and no two records
\* share them.
C16_EveryRecordHasTheFullKey ==
    /\ \A r \in attendance :
           /\ r.student_id # NULL
           /\ r.class_id # NULL
           /\ r.slot_number # NULL
           /\ r.attendance_date # NULL
    /\ NoDuplicateAttendance(attendance)

\* the failures of storing the enrolled image or the profile photo that leave
\* the embedding writable: reading the upload, the upsert that carries the
\* image, the update of users.profile_photo_url
ImageFails == {"image_read", "upsert_with_image", "profile_update"}

\* C17: in enroll_face a failure while storing the enrolled image or the
\* profile photo does not fail the enrollment and does not undo the
\* embedding: for every admitted request, when one of these writes fails and
\* the embedding can be written, the answer is success and the store holds
\* the student's embedding of the image sent.
C17_ImageFailureKeepsEnrollment ==
    \A image \in Images, user_id \in UserInputs, detector_available \in DetectorInputs,
       fail \in ImageFails :
        EnrollAdmits(image, user_id, detector_available) =>
            \A o \in {enroll_face(FaceState, image, user_id, detector_available, fail)} :
                /\ o.res.result = "ok"
                /\ \E r \in EncodingsOf(o.enc, IdOf(user_id)) : r.encoding = image.encoding

\* an enrollment has succeeded whose image could not be stored: the
\* embedding is there without an enrolled image
C17_Witness ==
    /\ response.op = "enroll"
    /\ response.result = "ok"
    /\ \E r \in face_encodings : r.enrolled_image_url = NoImage

\* C18: in recognize_face liveness comes first: when the liveness check of a
\* decoded image fails, the answer is recognized = false and liveness_check
\* = false, with the confidence of the liveness check, and nothing else has
\* run: no face encoding, no lookup of the user or of the stored embedding,
\* no matcher, whatever these would have done.
C18_LivenessFailureStopsRecognition ==
    \A image \in Images, user_id \in UserInputs, detector_available \in DetectorInputs,
       fail \in RecognizeFails :
        (image.loads /\ ~enhanced_liveness_check(image, detector_available).passed) =>
            \A o \in {recognize_face(FaceState, image, user_id, detector_available, fail)} :
                /\ o.res.result = "liveness_failed"
                /\ ~o.res.recognized
                /\ ~o.res.liveness_check
                /\ o.res.confidence =
                       enhanced_liveness_check(image, detector_available).confidence
                /\ o.res.calls = {"liveness"}

\* a recognition has been refused on liveness while both students have a
\* stored embedding
C18_Witness ==
    /\ response.op = "recognize"
    /\ response.result = "liveness_failed"
    /\ \A fid \in {"s1", "s2"} : EncodingsOf(face_encodings, IdOf(fid)) # {}

C20_FaceCountMessagesDiffer ==
    LET heuristic(image) == recognize_face(FaceState, image, "s1", FALSE, "none").res
        counted(image) == image.loads /\ ~image.cv_error
    IN  /\ \A image \in Images :
               (counted(image) /\ image.faces # 1) =>
                   /\ ~BasicLivenessCheck(image).passed
                   /\ heuristic(image).result = "liveness_failed"
                   /\ heuristic(image).confidence = 10
        /\ \A none \in Images, several \in Images :
               (counted(none) /\ counted(several) /\ none.faces = 0 /\ several.faces > 1) =>
                   heuristic(none).message # heuristic(several).message

----------------------------------------------------------------------------
(* Properties of enhanced_liveness_check (SpecLiveness) *)

\* the images the heuristic analyses with exactly one face found
OneFace(image) == image.loads /\ ~image.cv_error /\ image.faces = 1

\* which of the checks size, contrast, brightness fails first, in that order
FirstFailing(image) ==
    IF image.face_height < 100 \/ image.face_width < 100 THEN "size"
    ELSE IF image.contrast < 20 THEN "contrast"
    ELSE IF image.brightness < 20 \/ image.brightness > 240 THEN "brightness"
    ELSE "none"

\* C21: with exactly one face detected the heuristic liveness check returns
\* the verdict of the first failing check in the order size, contrast,
\* brightness: 0.3 for a face box under 100 px, 0.4 for a contrast under 20,
\* 0.3 for a brightness outside [20, 240], and it passes with 0.8 when none
\* fails, blurred or not; recognize_face without the detector refuses with
\* that confidence exactly when the heuristic did not pass.
C21_FirstFailingCheckDecides ==
    \A image \in LivenessImages :
        OneFace(image) =>
            \A l \in {BasicLivenessCheck(image)},
               o \in {recognize_face(FaceState, image, "s1", FALSE, "none")} :
                /\ l.passed = (FirstFailing(image) = "none")
                /\ l.confidence = CASE FirstFailing(image) = "size" -> 30
                                    [] FirstFailing(image) = "contrast" -> 40
                                    [] FirstFailing(image) = "brightness" -> 30
                                    [] FirstFailing(image) = "none" -> 80
                /\ (FirstFailing(image) = "size") =
                       (l.message = "Face too small. Please move closer to the camera.")
                /\ (FirstFailing(image) = "brightness") =
                       (l.message = "Extreme lighting conditions. Please adjust lighting.")
                /\ (o.res.result = "liveness_failed") = ~l.passed
                /\ ~l.passed =>
                       o.res.confidence = l.confidence /\ o.res.message = l.message

\* a recognition has been refused by the heuristic for low contrast
C21_Witness ==
    /\ response.op = "recognize"
    /\ response.result = "liveness_failed"
    /\ response.confidence = 40

\* C22: when the detector is available its result is surfaced as it is
\* (is_live, confidence, message, checks), and when the detector raises the
\* request does not fail: the evaluator returns exactly what the heuristic
\* gives for the same image, so enroll_face and recognize_face answer as
\* they do without the detector.
C22_DetectorVerbatimOrHeuristic ==
    \A image \in LivenessImages :
        image.loads =>
            \A l \in {enhanced_liveness_check(image, TRUE)} :
                IF image.detector # "raises"
                THEN \A results \in {comprehensive_liveness_check(image)} :
                        /\ l.passed = results.is_live
                        /\ l.confidence = results.confidence
                        /\ l.message = results.message
                        /\ l.details = results.checks
                        /\ ~results.is_live =>
                               \A o \in {recognize_face(FaceState, image, "s1", TRUE, "none")} :
                                   /\ o.res.confidence = results.confidence
                                   /\ o.res.message = results.message
                                   /\ o.res.details = results.checks
                ELSE /\ l = BasicLivenessCheck(image)
                     /\ recognize_face(FaceState, image, "s1", TRUE, "none")
                            = recognize_face(FaceState, image, "s1", FALSE, "none")
                     /\ enroll_face(FaceState, image, "s1", TRUE, "none")
                            = enroll_face(FaceState, image, "s1", FALSE, "none")

\* the detector's refusal has just been surfaced with its checks, and student
\* s1 is enrolled with image 19, on which the detector raises
C22_Witness ==
    /\ response.result = "liveness_failed"
    /\ response.details = {"detector_checks"}
    /\ response.confidence = 20
    /\ \E r \in face_encodings : r.enrolled_image_url = 19

----------------------------------------------------------------------------
(* Properties of the instant-attendance handlers, continued (Spec) *)

\* C23: expiry is decided at read time against expires_at, the instant
\* now = expires_at included: whenever a stored session is read by validate
\* or by consume at or after its expires_at, the request is refused as
\* expired.
C23_ExpiredFromExpiresAtOn ==
    \A password \in DOMAIN Store, student_fid \in {"s1", "s2"} :
        now >= Store[password].expires_at =>
            \A v \in {validate_instant_password(St, password, student_fid, "none")},
               m \in {mark_instant_attendance(St, password, student_fid, "none")} :
                /\ v.res.result \in ExpiredResults
                /\ m.res.result \in ExpiredResults

\* the student has an approved enrollment in the class
Approved(enr, student_fid, class_id) ==
    \E e \in EnrollmentsOf(enr, IdOf(student_fid), class_id) : e.status = "approved"

\* C24: whenever validate or consume is given a known, unexpired code for an
\* existing student (the database answering), the enrollment is no reason to
\* refuse: a student without an enrollment is enrolled as approved, one with
\* a non-approved enrollment is set to approved, and on success the student
\* has an approved enrollment in the session's class.
C24_ValidCodeApprovesEnrollment ==
    \A password \in DOMAIN Store, student_fid \in {"s1", "s2"} :
        ~IsExpired(now, Store[password]) =>
            \A v \in {validate_instant_password(St, password, student_fid, "none")},
               m \in {mark_instant_attendance(St, password, student_fid, "none")} :
                /\ v.res.result \notin {"pending", "not_enrolled"}
                /\ m.res.result \notin {"pending", "not_enrolled"}
                /\ v.res.result = "ok" => Approved(v.enr, student_fid, Store[password].class_id)
                /\ m.res.result = "ok" => Approved(m.enr, student_fid, Store[password].class_id)

----------------------------------------------------------------------------
(* Properties of the writes (SpecFace) *)

\* the record of the key, as a mark has written it
Written(att, student_fid, class_id, slot_number, date, status, marked_by) ==
    \E r \in ExistingAttendance(att, IdOf(student_fid), class_id, slot_number, date) :
        r.status = status /\ r.marked_by = marked_by

----------------------------------------------------------------------------
(* Properties of the OTP store under concurrent requests (SpecAsync) *)

\* C26: the existence check, the expiry check and the removal of a code are
\* one critical section: whatever the interleaving of issue, validate,
\* consume and invalidate requests on the event loop, no request is ever
\* suspended between its existence check and its use of the session, so none
\* uses or deletes a session another request removed in between, and none
\* ends in the error of reading a key that is gone.
C26_CheckAndUseAreOneStep ==
    /\ response.result # "race_error"
    /\ \A c \in Procs : inflight[c] # Idle => inflight[c].phase = "received"

\* the issuer's invalidate has just removed a code while a validate or a
\* consume of that code, received before it, waits for the event loop
C26_Witness ==
    /\ response.op = "invalidate"
    /\ response.result = "ok"
    /\ \E c \in Procs :
           /\ inflight[c] # Idle
           /\ inflight[c].op \in {"validate", "mark_instant"}
           /\ inflight[c].password \notin DOMAIN Store

----------------------------------------------------------------------------
(* Properties of the instant-attendance handlers, continued (Spec) *)

\* the slot numbers a generate request may carry: the body is any JSON
SlotRequestInputs == SlotInputs \cup {0, 10}

\* a session under its key: the key is a 6-digit decimal string, the slot is
\* in 1..9, and the teacher recorded owns the class recorded
WellFormed(password, password_data) ==
    /\ \E n \in RandomDraws : n >= 100000 /\ n <= 999999 /\ password = ToString(n)
    /\ password_data.slot_number \in 1..9
    /\ ClassesOfTeacher(password_data.class_id, password_data.teacher_id) # {}

\* C27: every session in the OTP store is well-formed, for any request issue
\* accepts: whatever generate is sent, in whatever state, the sessions of the
\* store it leaves have a 6-digit key, a slot number in 1..9, and the class
\* with the issuing teacher who owns it.
C27_StoredSessionsAreWellFormed ==
    /\ \A password \in DOMAIN Store : WellFormed(password, Store[password])
    /\ \A class_id \in ClassInputs, slot_number \in SlotRequestInputs,
          teacher_fid \in TeacherInputs, draw \in RandomDraws :
           \A o \in {generate_instant_password(St, class_id, slot_number, teacher_fid, draw, "none")} :
               \A password \in DOMAIN o.ip : WellFormed(password, o.ip[password])

\* C28: a consume that is refused as already marked leaves the attendance
\* table as it was: the record of the key keeps the status and the marked_by
\* the earlier mark wrote; and so do the sessions.
C28_AlreadyMarkedLeavesRecord ==
    \A password \in PasswordInputs, student_fid \in StudentInputs, fail \in MarkInstantFails :
        \A m \in {mark_instant_attendance(St, password, student_fid, fail)} :
            m.res.result = "already_marked" =>
                /\ m.att = attendance
                /\ m.ip = Store

\* a consume has just been refused as already marked, and the record it
\* met is a teacher's manual 'absent'
C28_Witness ==
    /\ response.op = "mark_instant"
    /\ response.result = "already_marked"
    /\ \E r \in attendance : r.status = "absent" /\ r.marked_by = "teacher"

\* the firebase ids of the teacher who issued the session
IssuerOf(password_data) == {u.firebase_id : u \in {x \in users : x.id = password_data.teacher_id}}

\* C29: invalidate on a code that is not in the store answers success
\* without looking the teacher up, whoever asks and whether or not the users
\* table can be read, and leaves every store as it was; so when the issuer
\* invalidates a stored code twice both calls succeed, the second changing
\* nothing.
C29_InvalidateUnknownCodeSucceeds ==
    /\ \A password \in Passwords \ DOMAIN Store, teacher_fid \in TeacherInputs \ {""},
          fail \in InvalidateFails :
           \A o \in {invalidate_instant_password(St, password, teacher_fid, fail)} :
               /\ o.res.result = "ok_already_gone"
               /\ After(St, o) = St
    /\ \A password \in DOMAIN Store :
           \A teacher_fid \in IssuerOf(Store[password]) :
               \A first \in {invalidate_instant_password(St, password, teacher_fid, "none")} :
                   \A second \in {invalidate_instant_password(After(St, first), password,
                                                              teacher_fid, "none")} :
                       /\ first.res.result = "ok"
                       /\ second.res.result = "ok_already_gone"
                       /\ After(St, second) = After(St, first)

\* an invalidate of a code that is not stored has just been answered with
\* success while another code is stored
C29_Witness ==
    /\ response.op = "invalidate"
    /\ response.result = "ok_already_gone"
    /\ DOMAIN Store # {}

----------------------------------------------------------------------------
(* Properties of enhanced_liveness_check, continued (SpecLiveness) *)

\* the basic check runs on the image and cv2 or the face detector raises in it
HeuristicRaises(image, detector_available) ==
    /\ FACE_RECOGNITION_AVAILABLE
    /\ image.loads
    /\ image.cv_error
    /\ ~detector_available \/ image.detector = "raises"

\* the same image as a detector that is installed and calls it live sees it
PassedByDetector(image) == [image EXCEPT !.detector = "live"]

\* C30: when the basic check raises, enhanced_liveness_check answers passed
\* with confidence 0.5, and enroll_face and recognize_face go on exactly as
\* they do for the same image when liveness has succeeded: neither is
\* answered as a failed liveness check, and each gives the response and
\* leaves the stores that it gives when the detector calls the image live.
C30_HeuristicErrorFailsOpen ==
    \A image \in LivenessImages, detector_available \in DetectorInputs :
        HeuristicRaises(image, detector_available) =>
            /\ \A l \in {enhanced_liveness_check(image, detector_available)} :
                   /\ l.passed
                   /\ l.confidence = 50
            /\ \A user_id \in UserInputs, fail \in EnrollFails :
                   \A o \in {enroll_face(FaceState, image, user_id, detector_available, fail)} :
                       /\ o.res.result # "liveness_failed"
                       /\ o = enroll_face(FaceState, PassedByDetector(image), user_id, TRUE, fail)
            /\ \A user_id \in UserInputs, fail \in RecognizeFails :
                   \A o \in {recognize_face(FaceState, image, user_id, detector_available, fail)} :
                       /\ o.res.result # "liveness_failed"
                       /\ o = recognize_face(FaceState, PassedByDetector(image), user_id, TRUE, fail)

\* student s1 has just been enrolled with image 18, on which cv2 raises in
\* the basic check
C30_Witness ==
    /\ response.op = "enroll"
    /\ response.result = "ok"
    /\ \E r \in face_encodings : r.enrolled_image_url = 18

====
